---- MODULE Spec2Model ----
(***************************************************************************)
(* PDF field mapper (src/src/App.tsx, multi-selection revision, lines      *)
(* 566-1322): the App session state (fields, selectedFieldIds, currentPage,*)
(* document, page dimensions) and the DrawingOverlay interaction state     *)
(* (isDrawing, isLasso, startPos, currentPos, dragState, snapLineY).       *)
(*                                                                         *)
(* Numbers.  Percentages are integers in thousandths of a percent          *)
(* (Unit = 1000, so 100% = 100000 and 0.5% = 500).  Pointer positions are  *)
(* pixels relative to the overlay's top-left corner; the overlay is        *)
(* RectWidth x RectHeight pixels, so one pixel is 0.1% and every           *)
(* pixel-to-percentage conversion is exact.  Floating-point rounding of    *)
(* the JavaScript doubles is not modelled.                                 *)
(*                                                                         *)
(* Every event handler is one atomic action: React re-renders between two  *)
(* discrete events, so a handler sees the state left by the previous one.  *)
(***************************************************************************)
EXTENDS Integers, Sequences, FiniteSets, TLC

VARIABLES
    pdfFile,            \* App: file shown in the toolbar (0 = none)
    pdfDocument,        \* App: loaded document (0 = null)
    numPages,           \* App
    currentPage,        \* App
    fields,             \* App: Field[] in insertion order
    selectedFieldIds,   \* App: string[]
    isLoading,          \* App
    alertMsg,           \* what the last handler passed to alert() ("" = nothing)
    pageDimensions,     \* App: document whose page sizes are held (0 = {})
    load,               \* handleFileUpload call in flight
    jsonRead,           \* handleJsonUpload calls awaiting file.text()
    isDrawing,          \* DrawingOverlay
    isLasso,            \* DrawingOverlay
    startPos,           \* DrawingOverlay
    currentPos,         \* DrawingOverlay
    dragState,          \* DrawingOverlay (Null, or <<session>>)
    snapLineY,          \* DrawingOverlay (Null, or <<y>>)
    nextId,             \* number of ids generateId() has handed out
    dragMoves,          \* number of pointer moves handled while dragging (bounded)
    gesture,            \* history: how the pointer gesture in progress began
    removed,            \* history: the selected ids the last handler deleted
    download,           \* the file the last export wrote (Null, or <<array>>)
    renders,            \* PdfPageRenderer: renderPage calls in flight
    shown,              \* PdfPageRenderer: props of the live effect (Null: unmounted)
    canvas,             \* PdfPageRenderer: what the canvas holds (Null: nothing)
    readUnder,          \* history: pdfFile when the last JSON file read began
    load2               \* a second handleFileUpload call, begun during the first

appVars     == <<pdfFile, pdfDocument, numPages, currentPage, fields,
                 selectedFieldIds, isLoading, pageDimensions>>
asyncVars   == <<load, jsonRead, load2>>
overlayVars == <<isDrawing, isLasso, startPos, currentPos, dragState, snapLineY>>
auxVars     == <<nextId, dragMoves, gesture>>
renderVars  == <<renders, shown, canvas>>
vars        == <<appVars, alertMsg, asyncVars, overlayVars, auxVars, removed,
                 download, renderVars, readUnder>>

----------------------------------------------------------------------------
(* Bounds of the model *)

MaxGen   == 2      \* ids generateId() may hand out in one run
MaxDragMoves == 2  \* pointer moves handled while dragging in one run

(* Program constants *)

Unit        == 1000     \* thousandths of a percent per percent
RectWidth   == 1000     \* getBoundingClientRect().width  (pixels)
RectHeight  == 1000     \* getBoundingClientRect().height (pixels)
MinSize     == 500      \* 0.5 (percent): width > 0.5 && height > 0.5
SnapPixels  == 5        \* (5 / rect.height) * 100

NoDoc  == 0             \* useState<PDFDocumentProxy | null>(null)
Null   == <<>>          \* null of dragState and snapLineY; <<v>> is the value v

\* Pointer positions the events carry, <<clientX, clientY>> in pixels.
Points == { <<50, 50>>, <<53, 53>>, <<60, 60>>, <<300, 303>> }

\* Where a field may be pressed: the pointer positions, and a point inside
\* the third field of the exported file.
PressPoints == Points \cup { <<300, 60>> }

\* Names the rename input may be given.
Names == { "" }

\* The documents the user may pick: PdfPages[d] pages, each PdfSize[d] units.
PdfFiles == { 1, 2 }
PdfPages == << 2, 1, 1 >>
PdfSize  == << [width |-> 612, height |-> 792], [width |-> 595, height |-> 842],
               [width |-> 20, height |-> 20] >>

\* a one-page document and a document whose page is a 20 x 20 stamp
SmallPdfFiles == { 2, 3 }

\* The JSON files the user may pick, as JSON.parse sees them.  An absent
\* attribute is <<>>, a present one <<value>>; numbers are in thousandths.
Absent == <<>>
\* What reading an attribute that the object lacks gives (undefined): a
\* value that is no number, and no name, of any file.  Only the import
\* stores it; the handlers that compute with a field's attributes are
\* explored on files whose blocks are complete.
Undefined     == -1000000000
UndefinedName == "(undefined)"
Item(id, page, name, x, y, w, h, pc) ==
    [id |-> id, page |-> page, variableName |-> name,
     x |-> x, y |-> y, width |-> w, height |-> h, percentageCoordinates |-> pc,
     pdfCoordinates |-> Absent]
Block(x, y, w, h) == << [x |-> x, y |-> y, width |-> w, height |-> h] >>
\* the element null of an array
NullItem == [null |-> TRUE]
Exported(id, page, name, x, y, w, h) ==
    Item(<<id>>, <<page>>, <<name>>, Absent, Absent, Absent, Absent, Block(x, y, w, h))

JsonFiles == 1 .. 4
JsonText ==
    << [kind |-> "invalid", items |-> <<>>],          \* not JSON
       [kind |-> "object",  items |-> <<>>],          \* JSON, but no array
       [kind |-> "array",   items |->                 \* an exported file
           << Exported(1, 1, "a", 5000, 5000, 1000, 1000),
              Exported(2, 1, "b", 10000, 5400, 10000, 5000),
              Exported(3, 1, "c", 25000, 5800, 10000, 5000) >>],
       [kind |-> "array",   items |->                 \* raw shape
           << Item(<<1>>, <<2>>, <<"wide">>, <<20000>>, <<1000>>, <<150000>>, <<30000>>, Absent),
              Item(<<2>>, <<2>>, <<"tall">>, Absent, <<500>>, <<5300>>, <<99400>>, Absent) >>],
       [kind |-> "array",   items |->                 \* [ {...}, null ]
           << Exported(1, 1, "a", 5000, 5000, 1000, 1000), NullItem >>],
       [kind |-> "array",   items |->                 \* hand-written
           << Item(Absent, <<2>>, <<"foo">>, <<5000>>, <<5000>>, <<20000>>, <<10000>>, Absent),
              Item(<<1>>, <<0>>, <<"">>, <<0>>, <<0>>, <<0>>, <<-5000>>, Absent),
              Item(<<1>>, Absent, <<"g">>, Absent, Absent, Absent, Absent, Absent) >>],
       [kind |-> "array",   items |->                 \* three decimals
           << Exported(1, 1, "p", 5020, 5004, 10006, 5000) >>],
       [kind |-> "array",   items |->                 \* a block with x and y only
           << Exported(1, 1, "a", 5000, 5000, 1000, 1000),
              Item(<<2>>, Absent, Absent, Absent, Absent, Absent, Absent,
                   Block(5000, 5000, Undefined, Undefined)) >>] >>

\* the files that hold an array
ArrayFiles == { f \in JsonFiles : JsonText[f].kind = "array" }

\* Files that no export of this tool writes: arrays with a null element, with
\* attributes missing, zero, negative or empty, and with one id twice.
OddFiles == { 5, 6, 7 }

\* A file whose second element has a percentageCoordinates block without
\* width and height, and neither page nor variableName.
BareBlockFiles == { 8 }

----------------------------------------------------------------------------
(* Array helpers: the JavaScript Array methods the handlers use *)

\* the handler calls alert() with no message
NoAlert == alertMsg' = ""

\* the handler deletes no field
NoRemoval == removed' = {}

Includes(s, v) == \E i \in DOMAIN s : s[i] = v

IdsOf(fs) == { fs[i].id : i \in DOMAIN fs }

Min(a, b) == IF a <= b THEN a ELSE b
Max(a, b) == IF a >= b THEN a ELSE b
Abs(a)    == IF a >= 0 THEN a ELSE -a

\* ((e.clientX - rect.left) / rect.width) * 100
PxToPct(px, size) == (px * 100 * Unit) \div size

\* Math.max(0, Math.min(100, v))
Clamp100(v) == Max(0, Min(100 * Unit, v))

\* Math.max(0, Math.min(100 - size, v))
ClampField(v, size) == Max(0, Min(100 * Unit - size, v))

\* generateId(): a token never handed out before; GenId(n) is the one handed
\* out after n others (the files' ids are below 100)
GenId(n) == 100 + n
generateId == GenId(nextId)

\* `var_${fields.length + 1}`
DefaultName(n) == "var_" \o ToString(n)

----------------------------------------------------------------------------
(* DrawingOverlay *)

\* The overlay is rendered only when a document is loaded and isLoading is
\* false (App's viewer area, lines 1284-1318).
Mounted == ~isLoading /\ pdfDocument # NoDoc

\* useState initial values of DrawingOverlay (lines 671-682)
OverlayInit ==
    /\ isDrawing = FALSE
    /\ isLasso = FALSE
    /\ startPos = [x |-> 0, y |-> 0]
    /\ currentPos = [x |-> 0, y |-> 0]
    /\ dragState = Null
    /\ snapLineY = Null

\* The field's <div> covers left/top/width/height percent of the overlay.
PointInField(f, x, y) ==
    /\ f.x <= x /\ x <= f.x + f.width
    /\ f.y <= y /\ y <= f.y + f.height

\* e.target === overlayRef.current: the press is on no field of the page
OnEmptyCanvas(x, y) ==
    \A i \in DOMAIN fields :
        fields[i].page = currentPage => ~PointInField(fields[i], x, y)

\* The pointer's button is up: no press on the overlay is awaiting its release
\* or its mouseleave.  A press needs the button up, and a click outside the
\* overlay (list, toolbar, file pickers) or on the draw-mode button needs the
\* pointer to have been released or to have left the overlay first.
PointerFree == gesture = "none"

\* isSelected of a rendered field
IsSelected(id) == Includes(selectedFieldIds, id)

\* SelectionAfterDown that never clears
SelectionAfterDownKept(additive) == selectedFieldIds

\* the selection handleMouseDown leaves (lines 697-699)
SelectionAfterDown(additive) == IF additive THEN selectedFieldIds ELSE <<>>

\* handleMouseDown (lines 684-700)
MouseDown(p, additive) ==
    LET x == PxToPct(p[1], RectWidth)
        y == PxToPct(p[2], RectHeight)
    IN  /\ Mounted
        /\ PointerFree
        /\ NoAlert
        /\ NoRemoval
        /\ UNCHANGED <<download, renderVars, readUnder, load2>>
        /\ OnEmptyCanvas(x, y)
        /\ startPos' = [x |-> x, y |-> y]
        /\ currentPos' = [x |-> x, y |-> y]
        /\ isLasso' = TRUE
        /\ selectedFieldIds' = SelectionAfterDown(additive)
        /\ gesture' = IF isDrawing THEN "emptyDraw" ELSE "emptyLasso"
        /\ UNCHANGED <<pdfFile, pdfDocument, numPages, currentPage, fields,
                       isLoading, pageDimensions, asyncVars,
                       isDrawing, dragState, snapLineY, nextId, dragMoves>>

\* NextSelection that always narrows a plain press to the pressed field
NextSelectionNarrowing(id, additive) ==
    IF additive
    THEN IF IsSelected(id) THEN SelectSeq(selectedFieldIds, LAMBDA s : s # id)
                           ELSE Append(selectedFieldIds, id)
    ELSE << id >>

\* nextSelection of the field's onMouseDown (lines 872-885)
NextSelection(id, additive) ==
    IF additive
    THEN IF IsSelected(id)
         THEN SelectSeq(selectedFieldIds, LAMBDA s : s # id)
         ELSE Append(selectedFieldIds, id)
    ELSE IF ~IsSelected(id) THEN <<id>> ELSE selectedFieldIds

\* fieldsToDrag.map(...) (lines 888, 893-899)
InitialPositions(fs, sel) ==
    LET drag == SelectSeq(fs, LAMBDA f : Includes(sel, f.id))
    IN  [k \in DOMAIN drag |->
            [id |-> drag[k].id, x |-> drag[k].x, y |-> drag[k].y,
             width |-> drag[k].width, height |-> drag[k].height]]

\* onMouseDown of the field at index i (lines 869-901)
FieldMouseDown(i, p, additive) ==
    LET f == fields[i]
        nextSelection == NextSelection(f.id, additive)
    IN  /\ Mounted
        /\ PointerFree
        /\ NoAlert
        /\ NoRemoval
        /\ UNCHANGED <<download, renderVars, readUnder, load2>>
        /\ f.page = currentPage
        /\ PointInField(f, PxToPct(p[1], RectWidth), PxToPct(p[2], RectHeight))
        /\ selectedFieldIds' = nextSelection
        /\ dragState' = << [startX |-> p[1], startY |-> p[2],
                            mainFieldId |-> f.id,
                            initialPositions |-> InitialPositions(fields, nextSelection)] >>
        /\ gesture' = "field"
        /\ UNCHANGED <<pdfFile, pdfDocument, numPages, currentPage, fields,
                       isLoading, pageDimensions, asyncVars,
                       isDrawing, isLasso, startPos, currentPos, snapLineY,
                       nextId, dragMoves>>

\* Index of the first element of s that satisfies Test (Array.find, and the
\* `for ... break` scan); 0 when there is none.
FirstIndex(s, Test(_)) ==
    LET hits == { i \in DOMAIN s : Test(s[i]) }
    IN  IF hits = {} THEN 0 ELSE CHOOSE i \in hits : \A j \in hits : i <= j

\* (5 / rect.height) * 100
SnapMarginYPct == PxToPct(SnapPixels, RectHeight)

\* SnapCandidate without the test of the selection
SnapCandidateSelected(otherField, mainNewY) ==
    /\ otherField.page = currentPage
    /\ Abs(mainNewY - otherField.y) <= SnapMarginYPct

\* the test of the snap scan (lines 718-719)
SnapCandidate(otherField, mainNewY) ==
    /\ ~IsSelected(otherField.id)
    /\ otherField.page = currentPage
    /\ Abs(mainNewY - otherField.y) <= SnapMarginYPct

\* SnapIndex without the break: the last field in range wins
SnapIndexLast(mainNewY) ==
    LET hits == { i \in DOMAIN fields : SnapCandidate(fields[i], mainNewY) }
    IN  IF hits = {} THEN 0 ELSE CHOOSE i \in hits : \A j \in hits : i >= j

\* the snap scan (lines 717-726): index of the field snapped to, 0 if none
SnapIndex(mainNewY) ==
    FirstIndex(fields, LAMBDA f : SnapCandidate(f, mainNewY))

\* DragUpdate that moves the field from where the store has it
DragUpdateFromStore(pos, deltaX, finalDeltaY) ==
    LET i   == FirstIndex(fields, LAMBDA f : f.id = pos.id)
        cur == IF i = 0 THEN pos ELSE fields[i]
    IN  [id |-> pos.id,
         x  |-> ClampField(cur.x + deltaX, pos.width),
         y  |-> ClampField(cur.y + finalDeltaY, pos.height)]

\* one entry of updates (lines 732-740)
DragUpdate(pos, deltaX, finalDeltaY) ==
    [id |-> pos.id,
     x  |-> ClampField(pos.x + deltaX, pos.width),
     y  |-> ClampField(pos.y + finalDeltaY, pos.height)]

\* OnUpdateFields that keeps only the fields it moved
OnUpdateFieldsListedOnly(fs, updates) ==
    LET listed == SelectSeq(fs, LAMBDA f : \E k \in DOMAIN updates : updates[k].id = f.id)
    IN  [i \in DOMAIN listed |->
            LET k == FirstIndex(updates, LAMBDA u : u.id = listed[i].id)
            IN  [listed[i] EXCEPT !.x = updates[k].x, !.y = updates[k].y]]

\* onUpdateFields (lines 1310-1315)
OnUpdateFields(fs, updates) ==
    [i \in DOMAIN fs |->
        LET k == FirstIndex(updates, LAMBDA u : u.id = fs[i].id)
        IN  IF k = 0 THEN fs[i]
            ELSE [fs[i] EXCEPT !.x = updates[k].x, !.y = updates[k].y]]

\* updates of a drag move for pointer p (lines 707-740); the session must
\* hold the pressed field's snapshot
DragUpdates(ds, p) ==
    LET deltaX   == PxToPct(p[1] - ds.startX, RectWidth)
        deltaY   == PxToPct(p[2] - ds.startY, RectHeight)
        m        == FirstIndex(ds.initialPositions, LAMBDA q : q.id = ds.mainFieldId)
        mainInit == ds.initialPositions[m]
        cand     == mainInit.y + deltaY
        s        == SnapIndex(cand)
        mainNewY == IF s = 0 THEN cand ELSE fields[s].y
        finalDeltaY == mainNewY - mainInit.y
    IN  [k \in DOMAIN ds.initialPositions |->
            DragUpdate(ds.initialPositions[k], deltaX, finalDeltaY)]

\* setSnapLineY of a drag move (lines 721, 728)
DragSnapLine(ds, p) ==
    LET m    == FirstIndex(ds.initialPositions, LAMBDA q : q.id = ds.mainFieldId)
        cand == ds.initialPositions[m].y + PxToPct(p[2] - ds.startY, RectHeight)
        s    == SnapIndex(cand)
    IN  IF s = 0 THEN Null ELSE << fields[s].y >>

\* InsideLasso testing intersection instead of containment
InsideLassoTouching(f, lx, ly, lw, lh) ==
    /\ f.x <= lx + lw
    /\ f.y <= ly + lh
    /\ f.x + f.width >= lx
    /\ f.y + f.height >= ly

\* the lasso's containment test (lines 762-767)
InsideLasso(f, lx, ly, lw, lh) ==
    /\ f.x >= lx
    /\ f.y >= ly
    /\ f.x + f.width <= lx + lw
    /\ f.y + f.height <= ly + lh

\* newlySelected (lines 753-769)
LassoSelection(fs, page, start, x, y) ==
    LET lx == Min(start.x, x)
        ly == Min(start.y, y)
        lw == Abs(x - start.x)
        lh == Abs(y - start.y)
        onPage == SelectSeq(fs, LAMBDA f : f.page = page)
        inside == SelectSeq(onPage, LAMBDA f : InsideLasso(f, lx, ly, lw, lh))
    IN  [k \in DOMAIN inside |-> inside[k].id]

\* handleMouseMove, dragState branch (lines 706-744)
DragMove(p) ==
    LET ds == dragState[1]
    IN  /\ Mounted
        /\ NoAlert
        /\ NoRemoval
        /\ UNCHANGED <<download, renderVars, readUnder, load2>>
        /\ dragState # Null
        /\ dragMoves < MaxDragMoves
        /\ dragMoves' = dragMoves + 1
        /\ IF FirstIndex(ds.initialPositions, LAMBDA q : q.id = ds.mainFieldId) = 0
           THEN \* mainFieldInitial is undefined: reading .y throws
                UNCHANGED <<fields, snapLineY>>
           ELSE /\ snapLineY' = DragSnapLine(ds, p)
                /\ fields' = OnUpdateFields(fields, DragUpdates(ds, p))
        /\ UNCHANGED <<pdfFile, pdfDocument, numPages, currentPage,
                       selectedFieldIds, isLoading, pageDimensions, asyncVars, isDrawing, isLasso, startPos, currentPos,
                       dragState, nextId, gesture>>

\* handleMouseMove, lasso / drawing branch (lines 746-774)
LassoMove(p) ==
    LET x == Clamp100(PxToPct(p[1], RectWidth))
        y == Clamp100(PxToPct(p[2], RectHeight))
    IN  /\ Mounted
        /\ NoAlert
        /\ NoRemoval
        /\ UNCHANGED <<download, renderVars, readUnder, load2>>
        /\ dragState = Null
        /\ isLasso \/ isDrawing
        /\ currentPos' = [x |-> x, y |-> y]
        /\ selectedFieldIds' =
              IF isLasso THEN LassoSelection(fields, currentPage, startPos, x, y)
                         ELSE selectedFieldIds
        /\ UNCHANGED <<pdfFile, pdfDocument, numPages, currentPage, fields,
                       isLoading, pageDimensions, asyncVars,
                       isDrawing, isLasso, startPos, dragState, snapLineY,
                       auxVars>>

\* handleMouseMove (lines 702-775); with no session and no mode on it does nothing
MouseMove(p) == DragMove(p) \/ LassoMove(p)

\* the rectangle handleMouseUp commits (lines 794-797)
DrawnRect ==
    [x      |-> Min(startPos.x, currentPos.x),
     y      |-> Min(startPos.y, currentPos.y),
     width  |-> Abs(currentPos.x - startPos.x),
     height |-> Abs(currentPos.y - startPos.y)]

\* width > 0.5 && height > 0.5 (line 799)
BigEnough(r) == r.width > MinSize /\ r.height > MinSize

\* the field handleMouseUp passes to onAddField (lines 800-808)
NewField(r) ==
    [id |-> generateId, page |-> currentPage, x |-> r.x, y |-> r.y,
     width |-> r.width, height |-> r.height,
     variableName |-> DefaultName(Len(fields) + 1)]

\* SnapLineAfterUp that leaves the guide where the last move put it
SnapLineKept == snapLineY

\* setSnapLineY(null) at the end of a drag (line 780)
SnapLineAfterUp == Null

\* handleMouseUp (lines 777-811) with onAddField (lines 1304-1307)
HandleMouseUp ==
    /\ Mounted
    /\ NoAlert
    /\ NoRemoval
    /\ UNCHANGED <<download, renderVars, readUnder, load2>>
    /\ gesture' = "none"
    /\ IF dragState # Null
       THEN /\ dragState' = Null
            /\ snapLineY' = SnapLineAfterUp
            /\ UNCHANGED <<isLasso, isDrawing, fields, selectedFieldIds, nextId>>
       ELSE IF isLasso
       THEN /\ isLasso' = FALSE
            /\ UNCHANGED <<dragState, snapLineY, isDrawing, fields,
                           selectedFieldIds, nextId>>
       ELSE IF isDrawing
       THEN /\ isDrawing' = FALSE
            /\ IF BigEnough(DrawnRect)
               THEN /\ nextId < MaxGen
                    /\ fields' = Append(fields, NewField(DrawnRect))
                    /\ selectedFieldIds' = << generateId >>
                    /\ nextId' = nextId + 1
               ELSE UNCHANGED <<fields, selectedFieldIds, nextId>>
            /\ UNCHANGED <<dragState, snapLineY, isLasso>>
       ELSE UNCHANGED <<dragState, snapLineY, isLasso, isDrawing, fields,
                        selectedFieldIds, nextId>>
    /\ UNCHANGED <<pdfFile, pdfDocument, numPages, currentPage, isLoading,
                   pageDimensions, asyncVars, startPos, currentPos,
                   dragMoves>>

\* onMouseUp={handleMouseUp} (line 819)
MouseUp == HandleMouseUp

\* onMouseLeave={handleMouseUp} (line 820)
MouseLeave == HandleMouseUp

\* the draw-mode button (line 824)
ToggleDraw ==
    /\ Mounted
    /\ PointerFree
    /\ NoAlert
    /\ NoRemoval
    /\ UNCHANGED <<download, renderVars, readUnder, load2>>
    /\ isDrawing' = ~isDrawing
    /\ isLasso' = FALSE
    /\ UNCHANGED <<appVars, asyncVars, startPos, currentPos, dragState,
                   snapLineY, auxVars>>

----------------------------------------------------------------------------
(* PdfPageRenderer *)

\* The props of the renderer App shows: it is in the tree only when a
\* document is loaded and isLoading is false (lines 1284-1301).
Target == IF Mounted THEN << pdfDocument, currentPage >> ELSE Null

\* React has run the effect of lines 604-648 for the props on screen
EffectsFlushed == shown = Target

\* the cleanup of the effect (lines 641-646): isMounted = false for the call
\* it belongs to, and renderTask.cancel() when page.render() was reached,
\* which stops the drawing and rejects the task's promise (lines 631-633)
CleanedUp(rs) ==
    { [r EXCEPT !.isMounted = FALSE] : r \in { q \in rs : q.pc = "fetch" } }

\* the effect runs for new props, or the component leaves or enters the
\* tree: the old effect's cleanup, then renderPage() (lines 604-639).  A
\* component that enters the tree has a canvas of its own.
RenderEffect ==
    /\ ~EffectsFlushed
    /\ shown' = Target
    /\ renders' = CleanedUp(renders)
                   \cup (IF Target = Null THEN {}
                         ELSE { [doc |-> Target[1], page |-> Target[2],
                                 pc |-> "fetch", isMounted |-> TRUE] })
    /\ canvas' = IF shown = Null \/ Target = Null THEN Null ELSE canvas
    /\ alertMsg' = alertMsg
    /\ UNCHANGED <<appVars, asyncVars, overlayVars, auxVars, removed, download, readUnder>>

\* Abandoned without the isMounted test
AbandonedNever(r) == FALSE

\* `if (!isMounted) return` after the page fetch (line 613)
Abandoned(r) == ~r.isMounted

\* pdfDocument.getPage(pageNumber) resolves (lines 612-630): an abandoned
\* call returns; a live one sizes the canvas, which blanks it, and starts
\* page.render()
RenderFetched(r) ==
    /\ r \in renders
    /\ r.pc = "fetch"
    /\ r.page \in 1 .. PdfPages[r.doc]
    /\ IF Abandoned(r)
       THEN /\ renders' = renders \ { r }
            /\ UNCHANGED canvas
       ELSE /\ renders' = (renders \ { r }) \cup { [r EXCEPT !.pc = "draw"] }
            /\ canvas' = << [doc |-> r.doc, page |-> r.page, done |-> FALSE] >>
    /\ alertMsg' = alertMsg
    /\ UNCHANGED <<appVars, asyncVars, overlayVars, auxVars, removed, download, readUnder, shown>>

\* getPage rejects for a page the document does not have: catch (lines
\* 631-637)
RenderFetchFails(r) ==
    /\ r \in renders
    /\ r.pc = "fetch"
    /\ r.page \notin 1 .. PdfPages[r.doc]
    /\ renders' = renders \ { r }
    /\ alertMsg' = alertMsg
    /\ UNCHANGED <<appVars, asyncVars, overlayVars, auxVars, removed, download, readUnder,
                   shown, canvas>>

\* the render task draws the page and its promise resolves (line 630)
RenderDrawn(r) ==
    /\ r \in renders
    /\ r.pc = "draw"
    /\ renders' = renders \ { r }
    /\ canvas' = << [doc |-> r.doc, page |-> r.page, done |-> TRUE] >>
    /\ alertMsg' = alertMsg
    /\ UNCHANGED <<appVars, asyncVars, overlayVars, auxVars, removed, download, readUnder, shown>>

----------------------------------------------------------------------------
(* App: document load *)

\* the session state a failed load is claimed to leave untouched
SessionState ==
    <<pdfFile, pdfDocument, numPages, currentPage, fields, selectedFieldIds,
      pageDimensions>>

Idle == [pc |-> "idle", file |-> 0]

\* handleFileUpload up to its first await (lines 937-944).  isLoading hides
\* the viewer, which unmounts the overlay and drops its state.
LoadStart(file) ==
    /\ load = Idle
    /\ PointerFree
    /\ NoAlert
    /\ NoRemoval
    /\ UNCHANGED <<download, renderVars, readUnder, load2>>
    /\ isLoading' = TRUE
    /\ pdfFile' = file
    /\ load' = [pc |-> "read", file |-> file]
    /\ isDrawing' = FALSE
    /\ isLasso' = FALSE
    /\ startPos' = [x |-> 0, y |-> 0]
    /\ currentPos' = [x |-> 0, y |-> 0]
    /\ dragState' = Null
    /\ snapLineY' = Null
    /\ gesture' = "none"
    /\ UNCHANGED <<pdfDocument, numPages, currentPage, fields, selectedFieldIds,
                   pageDimensions, jsonRead, nextId, dragMoves>>

\* LoadDecoded that cancels the file read in flight
LoadDecodedCancelling ==
    /\ load.pc = "read"
    /\ NoAlert
    /\ NoRemoval
    /\ UNCHANGED <<download, renderVars, readUnder, load2>>
    /\ pdfDocument' = load.file
    /\ numPages' = PdfPages[load.file]
    /\ currentPage' = 1
    /\ fields' = <<>>
    /\ selectedFieldIds' = <<>>
    /\ load' = [load EXCEPT !.pc = "dims"]
    /\ jsonRead' = 0
    /\ UNCHANGED <<pdfFile, isLoading, pageDimensions, overlayVars, auxVars>>

\* the document is decoded (lines 946-951)
LoadDecoded ==
    /\ load.pc = "read"
    /\ NoAlert
    /\ NoRemoval
    /\ UNCHANGED <<download, renderVars, readUnder, load2>>
    /\ pdfDocument' = load.file
    /\ numPages' = PdfPages[load.file]
    /\ currentPage' = 1
    /\ fields' = <<>>
    /\ selectedFieldIds' = <<>>
    /\ load' = [load EXCEPT !.pc = "dims"]
    /\ UNCHANGED <<pdfFile, isLoading, pageDimensions, jsonRead,
                   overlayVars, auxVars>>

\* every page's size is fetched (lines 954-960), then finally (line 966)
LoadDims ==
    /\ load.pc = "dims"
    /\ NoAlert
    /\ NoRemoval
    /\ UNCHANGED <<download, renderVars, readUnder, load2>>
    /\ pageDimensions' = [i \in 1 .. PdfPages[load.file] |-> PdfSize[load.file]]
    /\ isLoading' = FALSE
    /\ load' = Idle
    /\ UNCHANGED <<pdfFile, pdfDocument, numPages, currentPage, fields,
                   selectedFieldIds, jsonRead, overlayVars, auxVars>>

\* an await rejects: catch and finally (lines 962-967)
LoadFail ==
    /\ load.pc \in {"read", "dims"}
    /\ alertMsg' = "Error al cargar el PDF"
    /\ NoRemoval
    /\ UNCHANGED <<download, renderVars, readUnder, load2>>
    /\ isLoading' = FALSE
    /\ load' = Idle
    /\ UNCHANGED <<pdfFile, pdfDocument, numPages, currentPage, fields,
                   selectedFieldIds, pageDimensions, jsonRead, overlayVars,
                   auxVars>>

\* The "Cargar PDF" button (lines 1090-1096) is never disabled: a file chosen
\* while a call of handleFileUpload is in flight starts a second call
\* (lines 937-944), which runs beside the first.
LoadStartSecond(file) ==
    /\ load # Idle
    /\ load2 = Idle
    /\ PointerFree
    /\ NoAlert
    /\ NoRemoval
    /\ UNCHANGED <<download, renderVars, readUnder>>
    /\ isLoading' = TRUE
    /\ pdfFile' = file
    /\ load2' = [pc |-> "read", file |-> file]
    /\ isDrawing' = FALSE
    /\ isLasso' = FALSE
    /\ startPos' = [x |-> 0, y |-> 0]
    /\ currentPos' = [x |-> 0, y |-> 0]
    /\ dragState' = Null
    /\ snapLineY' = Null
    /\ gesture' = "none"
    /\ UNCHANGED <<pdfDocument, numPages, currentPage, fields, selectedFieldIds,
                   pageDimensions, load, jsonRead, nextId, dragMoves>>

\* the second call's document is decoded (lines 946-951)
LoadDecodedSecond ==
    /\ load2.pc = "read"
    /\ NoAlert
    /\ NoRemoval
    /\ UNCHANGED <<download, renderVars, readUnder>>
    /\ pdfDocument' = load2.file
    /\ numPages' = PdfPages[load2.file]
    /\ currentPage' = 1
    /\ fields' = <<>>
    /\ selectedFieldIds' = <<>>
    /\ load2' = [load2 EXCEPT !.pc = "dims"]
    /\ UNCHANGED <<pdfFile, isLoading, pageDimensions, load, jsonRead,
                   overlayVars, auxVars>>

\* the second call has fetched every page's size (lines 954-960), then
\* finally (line 966)
LoadDimsSecond ==
    /\ load2.pc = "dims"
    /\ NoAlert
    /\ NoRemoval
    /\ UNCHANGED <<download, renderVars, readUnder>>
    /\ pageDimensions' = [i \in 1 .. PdfPages[load2.file] |-> PdfSize[load2.file]]
    /\ isLoading' = FALSE
    /\ load2' = Idle
    /\ UNCHANGED <<pdfFile, pdfDocument, numPages, currentPage, fields,
                   selectedFieldIds, load, jsonRead, overlayVars, auxVars>>

\* an await of the second call rejects: catch and finally (lines 962-967)
LoadFailSecond ==
    /\ load2.pc \in {"read", "dims"}
    /\ alertMsg' = "Error al cargar el PDF"
    /\ NoRemoval
    /\ UNCHANGED <<download, renderVars, readUnder>>
    /\ isLoading' = FALSE
    /\ load2' = Idle
    /\ UNCHANGED <<pdfFile, pdfDocument, numPages, currentPage, fields,
                   selectedFieldIds, pageDimensions, load, jsonRead,
                   overlayVars, auxVars>>

----------------------------------------------------------------------------
(* App: JSON import *)

\* v || d for a number: undefined and 0 are falsy
OrNum(v, d) == IF v = Absent \/ v = <<0>> THEN d ELSE v[1]

\* v || d for a string: undefined and "" are falsy
OrStr(v, d) == IF v = Absent \/ v = <<"">> THEN d ELSE v[1]

\* `var_${generateId().substring(0,4)}`
GeneratedName(n) == "var_" \o ToString(GenId(n))

\* generateId() calls that importing one element makes (lines 985, 995, 997)
GenCalls(item) ==
    (IF item.id = Absent THEN 1 ELSE 0)
    + (IF item.percentageCoordinates = Absent
          /\ (item.variableName = Absent \/ item.variableName = <<"">>)
       THEN 1 ELSE 0)

\* the callback of jsonData.map (lines 982-1004); n ids were handed out before
ImportItem(item, n) ==
    LET id     == IF item.id = Absent THEN GenId(n) ELSE item.id[1]
        nameAt == IF item.id = Absent THEN n + 1 ELSE n
    IN  IF item.percentageCoordinates # Absent
        THEN [id |-> id,
              page |-> IF item.page = Absent THEN Undefined ELSE item.page[1],
              variableName |-> IF item.variableName = Absent THEN UndefinedName
                               ELSE item.variableName[1],
              x |-> item.percentageCoordinates[1].x,
              y |-> item.percentageCoordinates[1].y,
              width |-> item.percentageCoordinates[1].width,
              height |-> item.percentageCoordinates[1].height]
        ELSE [id |-> id,
              page |-> OrNum(item.page, 1),
              variableName |-> OrStr(item.variableName, GeneratedName(nameAt)),
              x |-> OrNum(item.x, 0),
              y |-> OrNum(item.y, 0),
              width |-> OrNum(item.width, 10 * Unit),
              height |-> OrNum(item.height, 5 * Unit)]

\* jsonData.map(...) (line 982)
RECURSIVE ImportedFields(_, _)
ImportedFields(items, n) ==
    IF items = <<>> THEN <<>>
    ELSE << ImportItem(Head(items), n) >>
         \o ImportedFields(Tail(items), n + GenCalls(Head(items)))

RECURSIVE TotalGenCalls(_)
TotalGenCalls(items) ==
    IF items = <<>> THEN 0 ELSE GenCalls(Head(items)) + TotalGenCalls(Tail(items))

NoRead == 0

\* handleJsonUpload up to `await file.text()` (lines 970-975); the button is
\* disabled until a document is loaded (line 1109)
ImportStart(file) ==
    /\ pdfDocument # NoDoc
    /\ PointerFree
    /\ NoAlert
    /\ NoRemoval
    /\ UNCHANGED <<download, renderVars, load2>>
    /\ jsonRead = NoRead
    /\ jsonRead' = file
    /\ readUnder' = pdfFile
    /\ UNCHANGED <<appVars, load, overlayVars, auxVars>>

\* JSON.parse throws on text that is no JSON, the handler throws on a value
\* that is no array (lines 976-980), and the map callback throws on reading
\* percentageCoordinates of null (line 983)
ImportThrows(json) ==
    \/ json.kind # "array"
    \/ \E k \in DOMAIN json.items : json.items[k] = NullItem

\* FieldsAfterImport without the Array.isArray test: a value that is no
\* array is taken as an empty list
FieldsAfterImportUnchecked(json, fs, n) ==
    IF json.kind = "invalid" THEN fs
    ELSE IF json.kind = "array" THEN ImportedFields(json.items, n)
    ELSE <<>>

\* the collection handleJsonUpload leaves (lines 976-1011): the imported
\* fields, or fs untouched when the try block threw before setFields
FieldsAfterImport(json, fs, n) ==
    IF ImportThrows(json) THEN fs ELSE ImportedFields(json.items, n)

\* the rest of handleJsonUpload (lines 976-1015)
ImportFinish ==
    LET json == JsonText[jsonRead]
        gen  == IF ImportThrows(json) THEN 0 ELSE TotalGenCalls(json.items)
    IN  /\ jsonRead # NoRead
        /\ jsonRead' = NoRead
        /\ NoRemoval
        /\ UNCHANGED <<download, renderVars, readUnder, load2>>
        /\ nextId + gen <= MaxGen
        /\ fields' = FieldsAfterImport(json, fields, nextId)
        /\ nextId' = nextId + gen
        /\ alertMsg' = IF ImportThrows(json)
                       THEN "Error al leer el archivo JSON"
                       ELSE "Se importaron campos"
        /\ UNCHANGED <<pdfFile, pdfDocument, numPages, currentPage,
                       selectedFieldIds, isLoading, pageDimensions, load,
                       overlayVars, dragMoves, gesture>>

----------------------------------------------------------------------------
(* App: JSON export *)

\* n / d rounded to the nearest integer, halves away from zero (d > 0)
RoundDiv(n, d) ==
    IF n >= 0 THEN (2 * n + d) \div (2 * d) ELSE -((2 * (-n) + d) \div (2 * d))

\* Number(v.toFixed(2)) of a percentage: thousandths to the nearest ten
Round2(v) == 10 * RoundDiv(v, 10)

\* ToAbs rounding to whole page units, as toFixed(0) would
ToAbsWhole(v, size) == 100 * RoundDiv(v * size, 100000)

\* Number(((v / 100) * size).toFixed(2)), in hundredths of a page unit
ToAbs(v, size) == RoundDiv(v * size, 1000)

\* Number((dim.height - ((y + h) / 100) * dim.height).toFixed(2)), in
\* hundredths of a page unit
ToAbsY(y, h, size) == RoundDiv(100 * 1000 * size - (y + h) * size, 1000)

\* ExportItem that falls back on the first page's size when the field's page
\* has none
ExportItemFirstPage(field, dims) ==
    IF dims = <<>>
    THEN Item(<<field.id>>, <<field.page>>, <<field.variableName>>,
              <<field.x>>, <<field.y>>, <<field.width>>, <<field.height>>, Absent)
    ELSE LET dim == IF field.page \in DOMAIN dims THEN dims[field.page] ELSE dims[1]
         IN  [Item(<<field.id>>, <<field.page>>, <<field.variableName>>,
                   Absent, Absent, Absent, Absent,
                   Block(Round2(field.x), Round2(field.y),
                         Round2(field.width), Round2(field.height)))
              EXCEPT !.pdfCoordinates =
                  Block(ToAbs(field.x, dim.width),
                        ToAbsY(field.y, field.height, dim.height),
                        ToAbs(field.width, dim.width),
                        ToAbs(field.height, dim.height))]

\* the callback of fields.map in handleExport (lines 1019-1044), as
\* JSON.stringify writes its result
ExportItem(field, dims) ==
    IF field.page \notin DOMAIN dims
    THEN Item(<<field.id>>, <<field.page>>, <<field.variableName>>,
              <<field.x>>, <<field.y>>, <<field.width>>, <<field.height>>, Absent)
    ELSE LET dim == dims[field.page]
         IN  [Item(<<field.id>>, <<field.page>>, <<field.variableName>>,
                   Absent, Absent, Absent, Absent,
                   Block(Round2(field.x), Round2(field.y),
                         Round2(field.width), Round2(field.height)))
              EXCEPT !.pdfCoordinates =
                  Block(ToAbs(field.x, dim.width),
                        ToAbsY(field.y, field.height, dim.height),
                        ToAbs(field.width, dim.width),
                        ToAbs(field.height, dim.height))]

\* exportData (line 1019)
ExportData(fs, dims) == [i \in DOMAIN fs |-> ExportItem(fs[i], dims)]

\* handleExport (lines 1018-1053); the button is disabled on an empty store
\* (line 1241)
Export ==
    /\ fields # <<>>
    /\ PointerFree
    /\ NoAlert
    /\ NoRemoval
    /\ download' = << ExportData(fields, pageDimensions) >>
    /\ UNCHANGED <<renderVars, readUnder, load2>>
    /\ UNCHANGED <<appVars, asyncVars, overlayVars, auxVars>>

----------------------------------------------------------------------------
(* App: sidebar and toolbar *)

\* SyncYFields aligning to the field that was clicked first
SyncYFieldsFirstClicked(fs, sel) ==
    LET hits == { i \in DOMAIN fs : fs[i].id = sel[1] }
        targetY == IF hits = {} THEN 0 ELSE fs[CHOOSE i \in hits : TRUE].y
    IN  [i \in DOMAIN fs |->
            IF Includes(sel, fs[i].id) THEN [fs[i] EXCEPT !.y = targetY] ELSE fs[i]]

\* the new fields of syncY (lines 1058-1067); some selected id is in fs
SyncYFields(fs, sel) ==
    LET selectedFields == SelectSeq(fs, LAMBDA f : Includes(sel, f.id))
        targetY == selectedFields[1].y
    IN  [i \in DOMAIN fs |->
            IF Includes(sel, fs[i].id) THEN [fs[i] EXCEPT !.y = targetY] ELSE fs[i]]

\* syncY (lines 1055-1068)
SyncY ==
    /\ Len(selectedFieldIds) >= 2
    /\ PointerFree
    /\ NoAlert
    /\ NoRemoval
    /\ UNCHANGED <<download, renderVars, readUnder, load2>>
    /\ IF \E i \in DOMAIN fields : IsSelected(fields[i].id)
       THEN fields' = SyncYFields(fields, selectedFieldIds)
       ELSE \* selectedFields[0] is undefined: reading .y throws
            UNCHANGED fields
    /\ UNCHANGED <<pdfFile, pdfDocument, numPages, currentPage,
                   selectedFieldIds, isLoading, pageDimensions, asyncVars, overlayVars, auxVars>>

\* fields.filter(f => !selectedFieldIds.includes(f.id)) (line 1137)
WithoutSelected(fs, sel) == SelectSeq(fs, LAMBDA f : ~Includes(sel, f.id))

\* "Eliminar seleccionados" (lines 1134-1139)
DeleteSelected ==
    /\ Len(selectedFieldIds) > 0
    /\ PointerFree
    /\ NoAlert
    /\ removed' = { id \in IdsOf(fields) : IsSelected(id) }
    /\ UNCHANGED <<download, renderVars, readUnder, load2>>
    /\ fields' = WithoutSelected(fields, selectedFieldIds)
    /\ selectedFieldIds' = <<>>
    /\ UNCHANGED <<pdfFile, pdfDocument, numPages, currentPage, isLoading,
                   pageDimensions, asyncVars, overlayVars, auxVars>>

\* fields.filter(f => f.id !== field.id) (line 1186)
WithoutField(fs, id) == SelectSeq(fs, LAMBDA f : f.id # id)

\* WithoutId that filters nothing out
WithoutIdKeepingAll(sel, id) == sel

\* selectedFieldIds.filter(id => id !== field.id) (lines 1161, 1187)
WithoutId(sel, id) == SelectSeq(sel, LAMBDA s : s # id)

\* the trash button of the list entry at index i (lines 1184-1188)
DeleteField(i) ==
    /\ i \in DOMAIN fields
    /\ PointerFree
    /\ NoAlert
    /\ removed' = { id \in { fields[i].id } : IsSelected(id) }
    /\ UNCHANGED <<download, renderVars, readUnder, load2>>
    /\ fields' = WithoutField(fields, fields[i].id)
    /\ selectedFieldIds' = WithoutId(selectedFieldIds, fields[i].id)
    /\ UNCHANGED <<pdfFile, pdfDocument, numPages, currentPage, isLoading,
                   pageDimensions, asyncVars, overlayVars, auxVars>>

\* fields.map(f => f.id === field.id ? {...f, variableName} : f) (lines 1200-1202)
Renamed(fs, id, name) ==
    [i \in DOMAIN fs |->
        IF fs[i].id = id THEN [fs[i] EXCEPT !.variableName = name] ELSE fs[i]]

\* the name input of the list entry at index i, shown only for a single
\* selected field (lines 1195-1207)
Rename(i, name) ==
    /\ i \in DOMAIN fields
    /\ PointerFree
    /\ NoAlert
    /\ NoRemoval
    /\ UNCHANGED <<download, renderVars, readUnder, load2>>
    /\ IsSelected(fields[i].id)
    /\ Len(selectedFieldIds) = 1
    /\ fields' = Renamed(fields, fields[i].id, name)
    /\ UNCHANGED <<pdfFile, pdfDocument, numPages, currentPage,
                   selectedFieldIds, isLoading, pageDimensions, asyncVars, overlayVars, auxVars>>

\* a click on the list entry at index i (lines 1158-1172)
ListClick(i, additive) ==
    LET id == fields[i].id
    IN  /\ i \in DOMAIN fields
        /\ PointerFree
        /\ NoAlert
        /\ NoRemoval
        /\ UNCHANGED <<download, renderVars, readUnder, load2>>
        /\ selectedFieldIds' =
              IF additive
              THEN IF IsSelected(id) THEN WithoutId(selectedFieldIds, id)
                                     ELSE Append(selectedFieldIds, id)
              ELSE << id >>
        /\ currentPage' = fields[i].page
        /\ UNCHANGED <<pdfFile, pdfDocument, numPages, fields, isLoading,
                       pageDimensions, asyncVars, overlayVars, auxVars>>

\* the previous-page button (lines 1257-1263)
PrevPage ==
    /\ pdfDocument # NoDoc
    /\ PointerFree
    /\ NoAlert
    /\ NoRemoval
    /\ UNCHANGED <<download, renderVars, readUnder, load2>>
    /\ currentPage > 1
    /\ currentPage' = Max(1, currentPage - 1)
    /\ UNCHANGED <<pdfFile, pdfDocument, numPages, fields, selectedFieldIds,
                   isLoading, pageDimensions, asyncVars, overlayVars,
                   auxVars>>

\* the next-page button (lines 1267-1273)
NextPage ==
    /\ pdfDocument # NoDoc
    /\ PointerFree
    /\ NoAlert
    /\ NoRemoval
    /\ UNCHANGED <<download, renderVars, readUnder, load2>>
    /\ currentPage < numPages
    /\ currentPage' = Min(numPages, currentPage + 1)
    /\ UNCHANGED <<pdfFile, pdfDocument, numPages, fields, selectedFieldIds,
                   isLoading, pageDimensions, asyncVars, overlayVars,
                   auxVars>>

----------------------------------------------------------------------------
(* The session *)

\* useState initial values of App (lines 925-932) and of DrawingOverlay
Init ==
    /\ pdfFile = 0
    /\ pdfDocument = NoDoc
    /\ numPages = 0
    /\ currentPage = 1
    /\ fields = <<>>
    /\ selectedFieldIds = <<>>
    /\ isLoading = FALSE
    /\ pageDimensions = <<>>
    /\ alertMsg = ""
    /\ removed = {}
    /\ download = Null
    /\ renders = {}
    /\ shown = Null
    /\ canvas = Null
    /\ readUnder = 0
    /\ load2 = Idle
    /\ load = Idle
    /\ jsonRead = NoRead
    /\ OverlayInit
    /\ nextId = 0
    /\ dragMoves = 0
    /\ gesture = "none"

\* Every handler of the session.
Next ==
    \/ \E f \in PdfFiles : LoadStart(f)
    \/ LoadDecoded
    \/ LoadDims
    \/ LoadFail
    \/ \E f \in PdfFiles : LoadStartSecond(f)
    \/ LoadDecodedSecond
    \/ LoadDimsSecond
    \/ LoadFailSecond
    \/ \E f \in JsonFiles : ImportStart(f)
    \/ ImportFinish
    \/ Export
    \/ \E p \in Points, additive \in BOOLEAN : MouseDown(p, additive)
    \/ \E i \in DOMAIN fields, p \in PressPoints, additive \in BOOLEAN :
          FieldMouseDown(i, p, additive)
    \/ \E p \in Points : MouseMove(p)
    \/ MouseUp
    \/ MouseLeave
    \/ ToggleDraw
    \/ SyncY
    \/ DeleteSelected
    \/ \E i \in DOMAIN fields : DeleteField(i)
    \/ \E i \in DOMAIN fields, name \in Names : Rename(i, name)
    \/ \E i \in DOMAIN fields, additive \in BOOLEAN : ListClick(i, additive)
    \/ PrevPage
    \/ NextPage
    \/ RenderEffect
    \/ \E r \in renders : RenderFetched(r)
    \/ \E r \in renders : RenderFetchFails(r)
    \/ \E r \in renders : RenderDrawn(r)

\* The whole session.  Its state space is the product of what the list, the
\* canvas gestures and the drags can each do to the store, and is explored
\* one part at a time by the specifications below; each starts from
\* the same initial state and takes a subset of the handlers, so each of its
\* behaviours is a behaviour of Spec.
Spec == Init /\ [][Next]_vars

\* App's own handlers: document load, import, the field list, the toolbar.
NextApp ==
    \/ \E f \in PdfFiles : LoadStart(f)
    \/ LoadDecoded
    \/ LoadDims
    \/ LoadFail
    \/ \E f \in JsonFiles : ImportStart(f)
    \/ ImportFinish
    \/ SyncY
    \/ DeleteSelected
    \/ \E i \in DOMAIN fields : DeleteField(i)
    \/ \E i \in DOMAIN fields, additive \in BOOLEAN : ListClick(i, additive)
    \/ PrevPage
    \/ NextPage

SpecApp == Init /\ [][NextApp]_vars

\* The gestures that start on empty canvas (lasso and drawing), on a loaded
\* document with imported fields.
NextCanvas ==
    \/ LoadStart(1)
    \/ LoadDecoded
    \/ LoadDims
    \/ \E f \in ArrayFiles : ImportStart(f)
    \/ ImportFinish
    \/ \E p \in Points, additive \in BOOLEAN : MouseDown(p, additive)
    \/ \E p \in Points : LassoMove(p)
    \/ MouseUp
    \/ MouseLeave
    \/ ToggleDraw
    \/ PrevPage
    \/ NextPage

SpecCanvas == Init /\ [][NextCanvas]_vars

\* Work on a field of the page (selection by press, drag, rename), on a
\* loaded document with imported fields.
NextDrag ==
    \/ LoadStart(1)
    \/ LoadDecoded
    \/ LoadDims
    \/ \E f \in ArrayFiles : ImportStart(f)
    \/ ImportFinish
    \/ \E i \in DOMAIN fields, p \in PressPoints, additive \in BOOLEAN :
          FieldMouseDown(i, p, additive)
    \/ \E p \in Points : DragMove(p)
    \/ MouseUp
    \/ MouseLeave
    \/ \E i \in DOMAIN fields, name \in Names : Rename(i, name)
    \/ NextPage

SpecDrag == Init /\ [][NextDrag]_vars

\* Files in and out: document load, import of the odd files, export, the
\* list and the name input.
NextFile ==
    \/ \E f \in SmallPdfFiles : LoadStart(f)
    \/ LoadDecoded
    \/ LoadDims
    \/ LoadFail
    \/ \E f \in OddFiles : ImportStart(f)
    \/ ImportFinish
    \/ Export
    \/ \E i \in DOMAIN fields : ListClick(i, FALSE)
    \/ \E i \in DOMAIN fields, name \in Names : Rename(i, name)

SpecFile == Init /\ [][NextFile]_vars

\* Import of a file with a bare block, and the trash button.
NextImport ==
    \/ \E f \in SmallPdfFiles : LoadStart(f)
    \/ LoadDecoded
    \/ LoadDims
    \/ LoadFail
    \/ \E f \in BareBlockFiles \cup { 3 } : ImportStart(f)
    \/ ImportFinish
    \/ \E i \in DOMAIN fields : DeleteField(i)

SpecImport == Init /\ [][NextImport]_vars

\* Document loads that overlap and succeed: a second file is chosen while the
\* first is being read, decoded or measured, and the two calls' awaits
\* resolve in any order.
NextLoads ==
    \/ \E f \in PdfFiles \cup SmallPdfFiles : LoadStart(f)
    \/ LoadDecoded
    \/ LoadDims
    \/ \E f \in PdfFiles \cup SmallPdfFiles : LoadStartSecond(f)
    \/ LoadDecodedSecond
    \/ LoadDimsSecond
    \/ PrevPage
    \/ NextPage

SpecLoads == Init /\ [][NextLoads]_vars

\* Drags of imported fields while a second document load, begun during the
\* first, is in flight: the first call's finally shows the viewer again, and
\* the second call's document arrives during the gesture.
NextRace ==
    \/ LoadStart(1)
    \/ LoadDecoded
    \/ LoadDims
    \/ LoadStartSecond(2)
    \/ LoadDecodedSecond
    \/ LoadDimsSecond
    \/ ImportStart(3)
    \/ ImportFinish
    \/ \E i \in DOMAIN fields, p \in PressPoints, additive \in BOOLEAN :
          FieldMouseDown(i, p, additive)
    \/ \E p \in Points : DragMove(p)
    \/ MouseUp

SpecRace == Init /\ [][NextRace]_vars

\* A file of three fields and a file of one, both written by an export of
\* this tool.
ShrinkingFiles == { 3, 7 }

\* The field list and the "Sinc. Y" button over stores that imports replace.
NextSync ==
    \/ LoadStart(1)
    \/ LoadDecoded
    \/ LoadDims
    \/ \E f \in ShrinkingFiles : ImportStart(f)
    \/ ImportFinish
    \/ \E i \in DOMAIN fields, additive \in BOOLEAN : ListClick(i, additive)
    \/ SyncY

SpecSync == Init /\ [][NextSync]_vars

\* The page renderer under page turns and document loads.  React runs the
\* effect in the commit that follows a change of props, before the next
\* event or promise callback.
NextRender ==
    \/ EffectsFlushed /\ \E f \in PdfFiles : LoadStart(f)
    \/ EffectsFlushed /\ LoadDecoded
    \/ EffectsFlushed /\ LoadDims
    \/ EffectsFlushed /\ LoadFail
    \/ EffectsFlushed /\ PrevPage
    \/ EffectsFlushed /\ NextPage
    \/ RenderEffect
    \/ EffectsFlushed /\ \E r \in renders : RenderFetched(r)
    \/ EffectsFlushed /\ \E r \in renders : RenderDrawn(r)

SpecRender == Init /\ [][NextRender]_vars

----------------------------------------------------------------------------
(* Properties *)

\* the field lies inside the page
InPage(f) ==
    /\ 0 <= f.x /\ f.x + f.width <= 100 * Unit
    /\ 0 <= f.y /\ f.y + f.height <= 100 * Unit

\* ids of the snapshots a drag session holds
DraggedIds(ds) == { ds.initialPositions[k].id : k \in DOMAIN ds.initialPositions }

\* the drag session holds the snapshot of the pressed field
AnchorSnapshotted(ds) == ds.mainFieldId \in DraggedIds(ds)

\* C1: after a pointer move handled in the Dragging state, every field that
\* the move updated lies inside the page (0 <= x, 0 <= y, x + width <= 100,
\* y + height <= 100), whatever its width and height and wherever it came from.
C1_DraggedFieldsStayInPage ==
    [][ \A p \in Points :
          (DragMove(p) /\ AnchorSnapshotted(dragState[1]))
          => \A i \in DOMAIN fields' :
                fields'[i].id \in DraggedIds(dragState[1]) => InPage(fields'[i]) ]_vars

\* C2: every selected id is the id of a field in the store.
C2_SelectionInStore ==
    \A k \in DOMAIN selectedFieldIds : selectedFieldIds[k] \in IdsOf(fields)

\* C3: a gesture begun by a down on empty canvas in draw mode and ended by an
\* up appends exactly one field and selects exactly it when its rectangle is
\* at least 1% x 1%, and leaves the store unchanged when the rectangle is
\* below the minimum size.
C3_DrawGestureCommits ==
    [][ (MouseUp /\ gesture = "emptyDraw")
        => /\ (DrawnRect.width >= Unit /\ DrawnRect.height >= Unit)
                => /\ Len(fields') = Len(fields) + 1
                   /\ SubSeq(fields', 1, Len(fields)) = fields
                   /\ selectedFieldIds' = << fields'[Len(fields')].id >>
           /\ ~BigEnough(DrawnRect) => fields' = fields ]_vars

\* C4: after a down on empty canvas the machine is in exactly one of Drawing
\* and Lassoing: Drawing when the draw-mode flag was on, Lassoing when it
\* was off.
C4_OneModeAfterDown ==
    [][ (\E p \in Points, additive \in BOOLEAN : MouseDown(p, additive))
        => /\ isDrawing' # isLasso'
           /\ isDrawing' = isDrawing
           /\ isLasso' = ~isDrawing ]_vars

\* C5: the store gains a field only at the up or mouseleave that ends a
\* gesture begun by a down on empty canvas in draw mode, or at an import.
C5_FieldsOnlyFromDrawOrImport ==
    [][ (IdsOf(fields') \ IdsOf(fields) # {} \/ Len(fields') > Len(fields))
        => \/ (MouseUp \/ MouseLeave) /\ gesture = "emptyDraw"
           \/ ImportFinish ]_vars

\* the pointer's position in percent of the overlay
PointerPct(p) == [x |-> PxToPct(p[1], RectWidth), y |-> PxToPct(p[2], RectHeight)]

\* the four edges of field f lie in the rectangle that corners a and b span
WithinSpan(f, a, b) ==
    /\ Min(a.x, b.x) <= f.x /\ f.x + f.width  <= Max(a.x, b.x)
    /\ Min(a.y, b.y) <= f.y /\ f.y + f.height <= Max(a.y, b.y)

\* the rectangle that corners a and b span shares a point with field f
TouchesSpan(f, a, b) ==
    /\ f.x <= Max(a.x, b.x) /\ Min(a.x, b.x) <= f.x + f.width
    /\ f.y <= Max(a.y, b.y) /\ Min(a.y, b.y) <= f.y + f.height

\* C6: a pointer move in the Lassoing state makes the selection exactly the
\* ids of the fields of the current page whose four edges lie inside the
\* rectangle spanned by the lasso's start point and the pointer; a field that
\* only overlaps it, or is on another page, is not selected.
C6_LassoSelectsContainedFields ==
    [][ \A p \in Points :
          (LassoMove(p) /\ isLasso)
          => /\ \A i \in DOMAIN fields :
                  Includes(selectedFieldIds', fields[i].id)
                  <=> \E j \in DOMAIN fields :
                        /\ fields[j].id = fields[i].id
                        /\ fields[j].page = currentPage
                        /\ WithinSpan(fields[j], startPos, PointerPct(p))
             /\ \A k \in DOMAIN selectedFieldIds' :
                  selectedFieldIds'[k] \in IdsOf(fields) ]_vars

\* C6 witness: a lasso in progress has selected the two fields it contains
\* and left out a field of the page that it only overlaps.
C6_Witness ==
    /\ isLasso
    /\ gesture = "emptyLasso"
    /\ Len(selectedFieldIds) = 2
    /\ \A i \in DOMAIN fields :
          IsSelected(fields[i].id) => WithinSpan(fields[i], startPos, currentPos)
    /\ \E i \in DOMAIN fields :
          /\ fields[i].page = currentPage
          /\ ~IsSelected(fields[i].id)
          /\ TouchesSpan(fields[i], startPos, currentPos)

\* the snapshot of the pressed field
AnchorSnapshot(ds) ==
    CHOOSE q \in { ds.initialPositions[k] : k \in DOMAIN ds.initialPositions } :
        q.id = ds.mainFieldId

\* the anchor's candidate Y for pointer p: its snapshot y plus the pointer's
\* vertical travel since the press, in percent
CandidateY(ds, p) == AnchorSnapshot(ds).y + PxToPct(p[2] - ds.startY, RectHeight)

\* the unselected fields of the current page whose y is within the snap
\* tolerance of y (indices in store order)
NearFields(y) ==
    { i \in DOMAIN fields :
        /\ ~IsSelected(fields[i].id)
        /\ fields[i].page = currentPage
        /\ Abs(y - fields[i].y) <= PxToPct(SnapPixels, RectHeight) }

\* r is t brought into [0, hi], and 0 when hi < 0
IsClamped(r, t, hi) ==
    /\ (0 <= t /\ t <= hi) => r = t
    /\ (t > hi /\ hi >= 0) => r = hi
    /\ (t < 0 \/ hi < 0) => r = 0

\* C7 as claimed: after a drag move, the anchor's y equals the y of every
\* unselected field of the page that the candidate Y is within tolerance of.
C7_SnapsToAnyNearField ==
    [][ \A p \in Points :
          (DragMove(p) /\ AnchorSnapshotted(dragState[1]))
          => \A g \in NearFields(CandidateY(dragState[1], p)) :
                \A i \in DOMAIN fields' :
                    fields'[i].id = dragState[1].mainFieldId
                    => fields'[i].y = fields[g].y ]_vars

\* C7 amended: after a drag move whose candidate Y is within tolerance of
\* some unselected field of the page, the anchor's y equals the y of the
\* first such field in store order, clamped to [0, 100 - anchor height].
C7_SnapsToFirstNearFieldClamped ==
    [][ \A p \in Points :
          (DragMove(p) /\ AnchorSnapshotted(dragState[1]))
          => LET near == NearFields(CandidateY(dragState[1], p))
                 g    == CHOOSE i \in near : \A j \in near : i <= j
             IN  near # {}
                 => /\ snapLineY' = << fields[g].y >>
                    /\ \A i \in DOMAIN fields' :
                          fields'[i].id = dragState[1].mainFieldId
                          => IsClamped(fields'[i].y, fields[g].y,
                                       100 * Unit - AnchorSnapshot(dragState[1]).height) ]_vars

\* C7 witness: a drag move has snapped the anchor, away from its snapshot y,
\* to the y of an unselected field of the page.
C7_Witness ==
    /\ dragState # Null
    /\ snapLineY # Null
    /\ AnchorSnapshotted(dragState[1])
    /\ \E i, g \in DOMAIN fields :
          /\ fields[i].id = dragState[1].mainFieldId
          /\ fields[i].y # AnchorSnapshot(dragState[1]).y
          /\ fields[i].y = snapLineY[1]
          /\ fields[g].y = snapLineY[1]
          /\ fields[g].page = currentPage
          /\ ~IsSelected(fields[g].id)

\* a batch move or a rename that names id leaves the store fs as it is
NoEffectOn(fs, id) ==
    /\ \A x, y \in { 0, 7000 } :
          OnUpdateFields(fs, << [id |-> id, x |-> x, y |-> y] >>) = fs
    /\ \A name \in { "", "z" } : Renamed(fs, id, name) = fs

\* the ids the selection holds
SelectedIds == { selectedFieldIds[k] : k \in DOMAIN selectedFieldIds }

\* C8: single delete and bulk delete leave the deleted ids neither in the
\* store nor in the selection, in the one step, and after any step a batch
\* move or rename naming an id that is not in the store changes nothing.
C8_DeletePrunesSelection ==
    [][ /\ \A i \in DOMAIN fields :
              DeleteField(i)
              => /\ fields[i].id \notin IdsOf(fields')
                 /\ ~Includes(selectedFieldIds', fields[i].id)
                 /\ NoEffectOn(fields', fields[i].id)
        /\ DeleteSelected
           => \A id \in SelectedIds :
                 /\ id \notin IdsOf(fields')
                 /\ ~Includes(selectedFieldIds', id)
                 /\ NoEffectOn(fields', id)
        /\ \A id \in (IdsOf(fields) \cup SelectedIds) \ IdsOf(fields') :
              NoEffectOn(fields', id) ]_vars

\* C8 witness: a selected field has just been deleted on its own, and both
\* the store and the selection still hold other fields.
C8_Witness ==
    /\ removed # {}
    /\ fields # <<>>
    /\ selectedFieldIds # <<>>
    /\ removed \cap IdsOf(fields) = {}
    /\ removed \cap SelectedIds = {}

\* C9: a syncY step gives every selected field the y of the selected field
\* with the lowest store index, whatever the order of the selection, changes
\* nothing else of the selected fields and leaves the other fields as they are.
C9_SyncYAlignsToFirstInStore ==
    [][ (SyncY /\ \E i \in DOMAIN fields : IsSelected(fields[i].id))
        => LET sel   == { i \in DOMAIN fields : IsSelected(fields[i].id) }
               first == CHOOSE i \in sel : \A j \in sel : i <= j
           IN  /\ Len(selectedFieldIds) >= 2
               /\ DOMAIN fields' = DOMAIN fields
               /\ \A i \in DOMAIN fields :
                     IF i \in sel
                     THEN fields'[i] = [fields[i] EXCEPT !.y = fields[first].y]
                     ELSE fields'[i] = fields[i] ]_vars

\* C9 witness: the selection was built last field first, the selected fields
\* share the y the first of them in store order started with, and the
\* unselected field between them kept its own.
C9_Witness ==
    /\ selectedFieldIds = << 3, 1 >>
    /\ Len(fields) = 3
    /\ fields[1].id = 1 /\ fields[2].id = 2 /\ fields[3].id = 3
    /\ fields[1].y = 5000
    /\ fields[3].y = 5000
    /\ fields[2].y = 5400

\* C10: an import whose text is no JSON or whose top level is no array
\* leaves the store and the selection as they were, both in the step that
\* starts reading the file and in the step that ends the import, and the
\* latter alerts the failure.
C10_FailedImportChangesNothing ==
    [][ /\ \A f \in JsonFiles :
              ImportStart(f) => fields' = fields /\ selectedFieldIds' = selectedFieldIds
        /\ (ImportFinish /\ JsonText[jsonRead].kind \in { "invalid", "object" })
           => /\ fields' = fields
              /\ selectedFieldIds' = selectedFieldIds
              /\ alertMsg' = "Error al leer el archivo JSON" ]_vars

\* C10 witness: an import has just failed on a store and a selection that
\* hold fields.
C10_Witness ==
    /\ alertMsg = "Error al leer el archivo JSON"
    /\ fields # <<>>
    /\ selectedFieldIds # <<>>

\* C11 as claimed: the step that ends the import of a file holding an array
\* replaces the store by one field per element of the array and reports
\* success.
C11_ArrayImportNeverAborts ==
    [][ (ImportFinish /\ JsonText[jsonRead].kind = "array")
        => /\ Len(fields') = Len(JsonText[jsonRead].items)
           /\ alertMsg' = "Se importaron campos" ]_vars

\* the value of attribute v of an element, d when the element has no v
Given(v, d) == IF v = Absent THEN d ELSE v[1]

\* C12 as claimed: the import of an array gives, for every element without a
\* percentageCoordinates block, a field whose page, x, y, width and height
\* are the element's own where present and 1, 0, 0, 10, 5 where missing,
\* whose name and id are the element's own where present.
C12_RawElementKeepsPresentValues ==
    [][ (ImportFinish /\ ~ImportThrows(JsonText[jsonRead]))
        => \A k \in DOMAIN JsonText[jsonRead].items :
              LET item == JsonText[jsonRead].items[k]
              IN  item.percentageCoordinates = Absent
                  => /\ fields'[k].page = Given(item.page, 1)
                     /\ fields'[k].x = Given(item.x, 0)
                     /\ fields'[k].y = Given(item.y, 0)
                     /\ fields'[k].width = Given(item.width, 10 * Unit)
                     /\ fields'[k].height = Given(item.height, 5 * Unit)
                     /\ item.variableName # Absent
                        => fields'[k].variableName = item.variableName[1]
                     /\ item.id # Absent => fields'[k].id = item.id[1] ]_vars

\* the field with its rectangle rounded to 2 decimals
Rounded(f) ==
    [f EXCEPT !.x = Round2(f.x), !.y = Round2(f.y),
              !.width = Round2(f.width), !.height = Round2(f.height)]

\* C13 as claimed: importing the array an export step writes gives the
\* store's fields in the same order, each with its id, name and page and
\* with its rectangle rounded to 2 decimals.
C13_ExportImportRoundTrip ==
    [][ Export
        => FieldsAfterImport([kind |-> "array", items |-> download'[1]], fields, nextId)
           = [i \in DOMAIN fields |-> Rounded(fields[i])] ]_vars

\* dimensions are held for the field's page
DimsKnown(f) == f.page \in DOMAIN pageDimensions

\* C14: in the array an export step writes, the element of a field carries
\* a pdfCoordinates block, and with it a percentageCoordinates block,
\* exactly when dimensions are held for the field's page; otherwise the
\* element is the field's own id, name, page and percentage rectangle and
\* carries neither block.
C14_AbsoluteOnlyWithDimensions ==
    [][ Export
        => /\ DOMAIN download'[1] = DOMAIN fields
           /\ \A i \in DOMAIN fields :
                 LET e == download'[1][i]
                     f == fields[i]
                 IN  /\ e.pdfCoordinates # Absent <=> DimsKnown(f)
                     /\ e.percentageCoordinates # Absent <=> DimsKnown(f)
                     /\ e.id = <<f.id>> /\ e.page = <<f.page>>
                     /\ e.variableName = <<f.variableName>>
                     /\ ~DimsKnown(f)
                        => /\ e.x = <<f.x>> /\ e.y = <<f.y>>
                           /\ e.width = <<f.width>> /\ e.height = <<f.height>> ]_vars

\* C14 witness: an exported array holds an element with both blocks next to
\* an element with none, for a field on a page without dimensions.
C14_Witness ==
    /\ download # Null
    /\ DOMAIN download[1] = DOMAIN fields
    /\ pageDimensions # <<>>
    /\ \E i, j \in DOMAIN fields :
          /\ DimsKnown(fields[i]) /\ ~DimsKnown(fields[j])
          /\ download[1][i].pdfCoordinates # Absent
          /\ download[1][i].percentageCoordinates # Absent
          /\ download[1][j].pdfCoordinates = Absent
          /\ download[1][j].x = <<fields[j].x>>

\* The percentage v and the absolute length a (hundredths of a page unit)
\* differ by at most 0.01 percentage units once a is mapped back with the
\* page size: |v/1000 - (a/100)/size*100| <= 0.01, cleared of fractions.
BackWithinTolerance(v, a, size) == Abs(v * size - a * 1000) <= 10 * size

\* the exported element e maps back to the rectangle of f on a page of size
\* dim: x = absX/W*100, width = absW/W*100, height = absH/H*100 and
\* y = (H - absY - absH)/H*100, each within 0.01
RectangleMapsBack(f, e, dim) ==
    LET a == e.pdfCoordinates[1]
    IN  /\ BackWithinTolerance(f.x, a.x, dim.width)
        /\ BackWithinTolerance(f.width, a.width, dim.width)
        /\ BackWithinTolerance(f.height, a.height, dim.height)
        /\ BackWithinTolerance(f.y, 100 * dim.height - a.y - a.height, dim.height)

\* C15 as claimed: for every field inside its page and whatever the page's
\* size, the absolute rectangle an export step writes maps back to the
\* field's percentages within 0.01.
C15_AbsoluteMapsBackOnEveryPage ==
    [][ Export
        => \A i \in DOMAIN fields :
              (DimsKnown(fields[i]) /\ InPage(fields[i]))
              => RectangleMapsBack(fields[i], download'[1][i],
                                   pageDimensions[fields[i].page]) ]_vars

\* C15 amended: for every field inside its page, on a page at least 200
\* units wide and high, the absolute rectangle an export step writes maps
\* back to the field's percentages within 0.01.
C15_AbsoluteMapsBackOnLargePage ==
    [][ Export
        => \A i \in DOMAIN fields :
              (/\ DimsKnown(fields[i])
               /\ InPage(fields[i])
               /\ pageDimensions[fields[i].page].width >= 200
               /\ pageDimensions[fields[i].page].height >= 200)
              => RectangleMapsBack(fields[i], download'[1][i],
                                   pageDimensions[fields[i].page]) ]_vars

\* C15 witness: an export has written the absolute rectangle of a field
\* inside a large page, and rounding changed its x and its y.
C15_Witness ==
    /\ download # Null
    /\ DOMAIN download[1] = DOMAIN fields
    /\ \E i \in DOMAIN fields :
          /\ DimsKnown(fields[i])
          /\ InPage(fields[i])
          /\ fields[i].width > 0 /\ fields[i].height > 0
          /\ pageDimensions[fields[i].page].width >= 200
          /\ pageDimensions[fields[i].page].height >= 200
          /\ download[1][i].pdfCoordinates # Absent
          /\ download[1][i].pdfCoordinates[1].x * 1000
                # fields[i].x * pageDimensions[fields[i].page].width
          /\ RectangleMapsBack(fields[i], download[1][i],
                               pageDimensions[fields[i].page])

\* C16 as claimed, step by step: a load can fail after its start and after
\* the decoding, and the failure step itself restores nothing, so the session
\* state after a failure is the one before the load only if the start, the
\* decoding and the failure each leave the displayed file, the document, the
\* page count, the current page, the store, the selection and the page
\* dimensions as they are; the failure clears the loading indicator.
C16_FailedLoadRestoresSession ==
    [][ /\ ((\E f \in PdfFiles : LoadStart(f)) \/ LoadDecoded)
           => SessionState' = SessionState
        /\ LoadFail
           => /\ SessionState' = SessionState
              /\ isLoading' = FALSE ]_vars

\* C17: a renderPage call writes to the canvas only while its effect is the
\* live one and its document and page are those on screen; the cleanup that
\* follows a page turn or a document switch leaves no call drawing, and a
\* call whose page fetch resolves after its cleanup returns without touching
\* the canvas.
C17_NoStaleRender ==
    [][ /\ \A r \in renders :
              (RenderFetched(r) \/ RenderDrawn(r))
              => /\ r \notin renders'
                 /\ IF r.isMounted /\ << r.doc, r.page >> = Target
                    THEN canvas'[1].doc = r.doc /\ canvas'[1].page = r.page
                    ELSE canvas' = canvas /\ renders' = renders \ { r }
        /\ RenderEffect
           => \A r \in renders' :
                 /\ r.pc = "fetch"
                 /\ r.isMounted => << r.doc, r.page >> = Target ]_vars

\* C17 witness: the call started for the page left behind is still waiting
\* for its page, abandoned, while the canvas holds the finished drawing of
\* the page on screen.
C17_Witness ==
    /\ Mounted
    /\ EffectsFlushed
    /\ canvas = << [doc |-> pdfDocument, page |-> currentPage, done |-> TRUE] >>
    /\ \E r \in renders :
          /\ ~r.isMounted
          /\ r.pc = "fetch"
          /\ << r.doc, r.page >> # << pdfDocument, currentPage >>

\* C18 as claimed: no two fields of the store have the same id.
C18_IdsDistinct ==
    \A i, j \in DOMAIN fields : i # j => fields[i].id # fields[j].id

\* C19 as claimed: every field of the store has a positive width and a
\* positive height.
C19_SizesPositive ==
    \A i \in DOMAIN fields : fields[i].width > 0 /\ fields[i].height > 0

\* the rectangle a snapshot or a field holds
RectOf(q) == << q.x, q.y, q.width, q.height >>

\* C20: a press on the field f of the page makes the selection {f} when f
\* was not selected and no modifier is held, toggles f in it (the rest kept,
\* in order) when a modifier is held, and leaves it as it is when f was
\* selected and no modifier is held; the same step sets dragState to the
\* pixel position of the press and one snapshot, with its rectangle, for
\* every field of the store that the new selection holds.
C20_PressSelectsThenDrags ==
    [][ \A i \in DOMAIN fields, p \in PressPoints, additive \in BOOLEAN :
          FieldMouseDown(i, p, additive)
          => LET id   == fields[i].id
                 was  == Includes(selectedFieldIds, id)
                 rest == SelectSeq(selectedFieldIds, LAMBDA s : s # id)
                 snap == dragState'[1].initialPositions
                 held == { k \in DOMAIN fields : Includes(selectedFieldIds', fields[k].id) }
             IN  /\ (~additive /\ ~was) => selectedFieldIds' = << id >>
                 /\ (~additive /\ was) => selectedFieldIds' = selectedFieldIds
                 /\ (additive /\ was) => selectedFieldIds' = rest
                 /\ (additive /\ ~was) => selectedFieldIds' = rest \o << id >>
                 /\ dragState' # Null
                 /\ dragState'[1].startX = p[1] /\ dragState'[1].startY = p[2]
                 /\ Len(snap) = Cardinality(held)
                 /\ \A k \in held :
                       \E n \in DOMAIN snap :
                          snap[n].id = fields[k].id /\ RectOf(snap[n]) = RectOf(fields[k])
                 /\ fields' = fields ]_vars

\* C20 witness: a plain press on the first of two selected fields has kept
\* both selected and holds a snapshot of each.
C20_Witness ==
    /\ dragState # Null
    /\ gesture = "field"
    /\ Len(selectedFieldIds) >= 2
    /\ dragState[1].mainFieldId = selectedFieldIds[1]
    /\ Len(dragState[1].initialPositions) = Len(selectedFieldIds)

\* the ids of the fields of the store that the selection holds
SelectedInStore == { id \in IdsOf(fields) : IsSelected(id) }

\* C21 as claimed: a press on field f, with or without a modifier key, starts
\* a drag session whose snapshots are those of the whole selection as it
\* stood before the press when f was selected, and of f alone otherwise.
C21_DragsSelectionOrPressed ==
    [][ \A i \in DOMAIN fields, p \in PressPoints, additive \in BOOLEAN :
          FieldMouseDown(i, p, additive)
          => DraggedIds(dragState'[1])
             = IF IsSelected(fields[i].id) THEN SelectedInStore
                                           ELSE { fields[i].id } ]_vars

\* C22 as claimed: every drag session holds the snapshot of the field that
\* was pressed.
C22_AnchorIsSnapshotted ==
    dragState # Null => AnchorSnapshotted(dragState[1])

\* the vertical deltas the claim of C23 allows for pointer p: the pointer's
\* own travel when nothing is in snap range of the anchor (or the session
\* holds no anchor to measure from), else the y of a field in range minus
\* the anchor's snapshot y
SharedDeltaY(ds, p) ==
    LET dy == PxToPct(p[2] - ds.startY, RectHeight)
    IN  IF ~AnchorSnapshotted(ds) THEN { dy }
        ELSE LET near == NearFields(CandidateY(ds, p))
             IN  IF near = {} THEN { dy }
                 ELSE { fields[g].y - AnchorSnapshot(ds).y : g \in near }

\* C23 as claimed: after a drag move with percentage delta (dx, dy), every
\* field of the store that the session holds a snapshot of is at its
\* snapshot position plus (dx, fdy), clamped to [0, 100 - width] and
\* [0, 100 - height], with one fdy for all of them: dy without a snap, the
\* snapped anchor y minus the anchor's snapshot y with one.
C23_DraggedFieldsFollowDelta ==
    [][ \A p \in Points :
          DragMove(p)
          => LET ds == dragState[1]
                 dx == PxToPct(p[1] - ds.startX, RectWidth)
             IN  \E fdy \in SharedDeltaY(ds, p) :
                    \A k \in DOMAIN ds.initialPositions :
                       \A i \in DOMAIN fields' :
                          LET q == ds.initialPositions[k]
                          IN  fields'[i].id = q.id
                              => /\ IsClamped(fields'[i].x, q.x + dx, 100 * Unit - q.width)
                                 /\ IsClamped(fields'[i].y, q.y + fdy, 100 * Unit - q.height) ]_vars

\* C24: a drag move snaps the anchor to the y of the first field in store
\* order that is not selected, is on the current page and has its y within
\* the tolerance of the anchor's candidate Y, and shows the guide there; when
\* no field qualifies the anchor goes to its candidate Y (clamped to the
\* page) and no guide is shown.
C24_SnapsOnlyToFirstQualifying ==
    [][ \A p \in Points :
          DragMove(p)
          => IF ~AnchorSnapshotted(dragState[1])
             THEN snapLineY' = Null
             ELSE LET cand == CandidateY(dragState[1], p)
                      qual == NearFields(cand)
                      hi   == 100 * Unit - AnchorSnapshot(dragState[1]).height
                      to   == IF qual = {} THEN cand
                              ELSE fields[CHOOSE g \in qual : \A h \in qual : g <= h].y
                  IN  /\ snapLineY' = IF qual = {} THEN Null ELSE << to >>
                      /\ \A i \in DOMAIN fields' :
                            fields'[i].id = dragState[1].mainFieldId
                            => IsClamped(fields'[i].y, to, hi) ]_vars

\* C24 witness: the anchor has snapped to the first of two unselected fields
\* of the page that were both within the tolerance of its candidate Y.  The
\* press was at a point of the diagonal and so is every pointer position, so
\* the pointer's vertical travel is the anchor's horizontal travel.
C24_Witness ==
    /\ dragState # Null
    /\ snapLineY # Null
    /\ AnchorSnapshotted(dragState[1])
    /\ dragState[1].startX = dragState[1].startY
    /\ \E i, g, h \in DOMAIN fields :
          LET q    == AnchorSnapshot(dragState[1])
              cand == q.y + (fields[i].x - q.x)
          IN  /\ fields[i].id = q.id
              /\ fields[i].x # q.x
              /\ fields[i].y = snapLineY[1]
              /\ g < h
              /\ fields[g].y = snapLineY[1]
              /\ fields[h].y # snapLineY[1]
              /\ \A k \in { g, h } :
                    /\ fields[k].page = currentPage
                    /\ ~IsSelected(fields[k].id)
                    /\ Abs(cand - fields[k].y) <= PxToPct(SnapPixels, RectHeight)

\* the field without its position
Unplaced(f) ==
    [id |-> f.id, page |-> f.page, width |-> f.width, height |-> f.height,
     variableName |-> f.variableName]

\* C25: the batch move of a drag move keeps the store's length and order,
\* every field's id, page, width, height and name, every field whose id is
\* not listed, and the selection; and it places either every listed field of
\* the store (each at its snapshot x plus the pointer's travel, clamped) or
\* none of them.
C25_BatchMoveOnlyPlaces ==
    [][ \A p \in Points :
          DragMove(p)
          => LET ds == dragState[1]
                 dx == PxToPct(p[1] - ds.startX, RectWidth)
             IN  /\ DOMAIN fields' = DOMAIN fields
                 /\ selectedFieldIds' = selectedFieldIds
                 /\ \A i \in DOMAIN fields :
                       /\ Unplaced(fields'[i]) = Unplaced(fields[i])
                       /\ fields[i].id \notin DraggedIds(ds) => fields'[i] = fields[i]
                 /\ \/ fields' = fields
                    \/ \A i \in DOMAIN fields, k \in DOMAIN ds.initialPositions :
                          fields[i].id = ds.initialPositions[k].id
                          => IsClamped(fields'[i].x, ds.initialPositions[k].x + dx,
                                       100 * Unit - ds.initialPositions[k].width) ]_vars

\* C25 witness: a drag session lists an id that is no longer in the store
\* (an import ended after the press), and a move has shifted a listed field
\* that is in it.
C25_Witness ==
    /\ dragState # Null
    /\ DraggedIds(dragState[1]) \ IdsOf(fields) # {}
    /\ \E i \in DOMAIN fields, k \in DOMAIN dragState[1].initialPositions :
          LET q == dragState[1].initialPositions[k]
          IN  /\ fields[i].id = q.id
              /\ fields[i].x # q.x
              /\ Abs(fields[i].x - q.x) <= Unit

\* C26: an up or a mouseleave in the Dragging state discards the drag
\* session, clears the snap guide and leaves no lasso, with the store and the
\* selection as the last move left them; and in every state the snap guide
\* is shown only while a drag session exists.
C26_UpEndsDragAndGuide ==
    /\ [](snapLineY # Null => dragState # Null)
    /\ [][ ((MouseUp \/ MouseLeave) /\ dragState # Null)
           => /\ dragState' = Null
              /\ snapLineY' = Null
              /\ isLasso' = FALSE
              /\ fields' = fields
              /\ selectedFieldIds' = selectedFieldIds ]_vars

\* C26 witness: a drag that snapped the dragged field to the y of a field
\* of the page has ended: no session, no guide, the field where the snap
\* put it.
C26_Witness ==
    /\ dragState = Null
    /\ snapLineY = Null
    /\ gesture = "none"
    /\ dragMoves > 0
    /\ \E i, g \in DOMAIN fields :
          /\ IsSelected(fields[i].id) /\ ~IsSelected(fields[g].id)
          /\ fields[i].page = currentPage /\ fields[g].page = currentPage
          /\ fields[i].y = fields[g].y

\* C27: a down on empty canvas empties the selection in the same step when
\* no modifier key is held and leaves it as it is when one is held; it never
\* changes the store.
C27_DownClearsUnlessAdditive ==
    [][ \A p \in Points, additive \in BOOLEAN :
          MouseDown(p, additive)
          => /\ ~additive => selectedFieldIds' = <<>>
             /\ additive => selectedFieldIds' = selectedFieldIds
             /\ fields' = fields ]_vars

\* C27 witness: a down with a modifier key has started a lasso and kept the
\* selection (a lasso that had moved back to its start would hold nothing).
C27_Witness ==
    /\ isLasso
    /\ gesture \in { "emptyLasso", "emptyDraw" }
    /\ currentPos = startPos
    /\ selectedFieldIds # <<>>
    /\ C2_SelectionInStore

\* C28 as claimed: after the step that ends a successful import, every field
\* of the store has a page, a name, an x, a y, a width and a height.
C28_ImportedFieldsAreComplete ==
    [][ (ImportFinish /\ ~ImportThrows(JsonText[jsonRead]))
        => \A k \in DOMAIN fields' :
              /\ fields'[k].page # Undefined
              /\ fields'[k].variableName # UndefinedName
              /\ fields'[k].x # Undefined /\ fields'[k].y # Undefined
              /\ fields'[k].width # Undefined /\ fields'[k].height # Undefined ]_vars

\* the page sizes of document d, as a load of d stores them
DimsOf(d) == [i \in 1 .. PdfPages[d] |-> PdfSize[d]]

\* C29: a file read in flight stays in flight, and able to complete, through
\* every step of a document load; the step that completes it makes the store
\* exactly the fields of the file, one per element and in the file's order,
\* whatever the store held and whichever document is loaded by then.
C29_ImportOutlivesSwitch ==
    /\ [](jsonRead # NoRead => ENABLED ImportFinish)
    /\ [][ (jsonRead # NoRead /\ jsonRead' # jsonRead) => ImportFinish ]_vars
    /\ [][ (ImportFinish /\ ~ImportThrows(JsonText[jsonRead]))
           => LET items == JsonText[jsonRead].items
              IN  /\ DOMAIN fields' = DOMAIN items
                  /\ \A k \in DOMAIN items :
                        /\ items[k].id # Absent => fields'[k].id = items[k].id[1]
                        /\ items[k].percentageCoordinates # Absent
                           => /\ fields'[k].x = items[k].percentageCoordinates[1].x
                              /\ fields'[k].y = items[k].percentageCoordinates[1].y ]_vars

\* C29 witness: an import has just filled the store; the document was
\* switched after its read began (another file is in the toolbar), and the
\* load of the new document has completed.
C29_Witness ==
    /\ alertMsg = "Se importaron campos"
    /\ fields # <<>>
    /\ readUnder # 0
    /\ pdfFile # readUnder
    /\ pdfDocument = pdfFile
    /\ load = Idle
    /\ ~isLoading
    /\ pageDimensions = DimsOf(pdfDocument)

\* C30 as claimed: the page dimensions the session holds are none, or those
\* of the loaded document.
C30_DimensionsOfLoadedDocument ==
    \/ pageDimensions = <<>>
    \/ pdfDocument # NoDoc /\ pageDimensions = DimsOf(pdfDocument)

\* both calls of handleFileUpload have returned and a document is loaded
LoadsSettled == load = Idle /\ load2 = Idle /\ pdfDocument # NoDoc

\* C31 as claimed: once the document loads in flight have all finished, the
\* file shown in the toolbar, the loaded document, the page count and the
\* page dimensions are those of one file.
C31_SettledLoadsAgree ==
    LoadsSettled
        => /\ pdfFile = pdfDocument
           /\ numPages = PdfPages[pdfDocument]
           /\ pageDimensions = DimsOf(pdfDocument)

\* C32 as claimed: whenever the "Sinc. Y" button is enabled, with two or more
\* selected ids, some selected id is the id of a field of the store, so that
\* syncY finds the field whose y it takes.  (With fewer than two ids the
\* handler returns at line 1056.)
C32_SyncYFindsTarget ==
    Len(selectedFieldIds) >= 2
        => \E i \in DOMAIN fields : IsSelected(fields[i].id)

\* the field lies between the top and the bottom of the page
InPageVertically(f) == 0 <= f.y /\ f.y + f.height <= 100 * Unit

\* C33 as claimed: a syncY over a store whose fields all lie between the top
\* and the bottom of the page leaves a store whose fields all do.
C33_SyncYKeepsInPage ==
    [][ (SyncY /\ \A i \in DOMAIN fields : InPageVertically(fields[i]))
            => \A i \in DOMAIN fields' : InPageVertically(fields'[i]) ]_vars

\* the store a move of the drag in progress to pointer p makes of the store
\* fs: every field that has a snapshot is put at its snapshot position plus
\* the pointer's travel, vertically snapped as the anchor is, and clamped;
\* fs as it is when the session lacks the anchor's snapshot
PlacedFrom(fs, p) ==
    LET ds == dragState[1]
    IN  IF ~AnchorSnapshotted(ds) THEN fs
        ELSE LET a    == AnchorSnapshot(ds)
                 dx   == PxToPct(p[1] - ds.startX, RectWidth)
                 cand == CandidateY(ds, p)
                 near == { g \in DOMAIN fs :
                             /\ ~IsSelected(fs[g].id)
                             /\ fs[g].page = currentPage
                             /\ Abs(cand - fs[g].y) <= PxToPct(SnapPixels, RectHeight) }
                 to   == IF near = {} THEN cand
                         ELSE fs[CHOOSE g \in near : \A h \in near : g <= h].y
             IN  [i \in DOMAIN fs |->
                    LET ks == { k \in DOMAIN ds.initialPositions :
                                   ds.initialPositions[k].id = fs[i].id }
                    IN  IF ks = {} THEN fs[i]
                        ELSE LET q == ds.initialPositions[CHOOSE k \in ks : \A l \in ks : k <= l]
                             IN  [fs[i] EXCEPT
                                    !.x = ClampField(q.x + dx, q.width),
                                    !.y = ClampField(q.y + to - a.y, q.height)]]

\* the press position of the drag in progress
PressPosition == << dragState[1].startX, dragState[1].startY >>

\* a move to q leaves PlacedFrom of the store and q, and what a later move
\* to any p would leave is what it would have left instead of the move to q
ForgetsEarlierMoves ==
    \A q \in Points :
       DragMove(q)
       => /\ fields' = PlacedFrom(fields, q)
          /\ \A p \in Points : PlacedFrom(fields', p) = PlacedFrom(fields, p)

\* the same, for the later moves of a drag whose fields are all selected
ForgetsEarlierMovesWhileSelected ==
    \A q \in Points :
       DragMove(q)
       => /\ fields' = PlacedFrom(fields, q)
          /\ (\A id \in DraggedIds(dragState[1]) : IsSelected(id))
             => \A p \in Points : PlacedFrom(fields', p) = PlacedFrom(fields, p)

C35_CurrentPageInDocument ==
    pdfDocument # NoDoc => 1 <= currentPage /\ currentPage <= numPages

====
